---- MODULE Spec2Model ----
(***************************************************************************)
(* A model of create_image.py: the "phantom" dual-image compositor.        *)
(*                                                                         *)
(* The program is one linear run: load image1, load image2, parse the two  *)
(* background colours, build the common canvas, scan every pixel, add a    *)
(* 1-pixel transparent border, save.  Every step is an action; pc is the   *)
(* position of the run.                                                    *)
(*                                                                         *)
(* The pixel arithmetic of the source is IEEE-754 double arithmetic.  The  *)
(* quantities b1, b2 and a are multiples of 0.5 and are kept exactly as    *)
(* doubled integers.  The quotient b1 / a, the product (bc2 - bc1) * x and *)
(* the sum bc1 + ... are each rounded to a 53-bit significand (round to    *)
(* nearest, ties to even) as the hardware does; round() is Python 3's      *)
(* round-half-to-even.  Significands are held as little-endian sequences   *)
(* of 13-bit limbs so that every intermediate fits a 32-bit integer.       *)
(***************************************************************************)
EXTENDS Integers, Naturals, Sequences, FiniteSets, TLC

\* ------------------------------------------------------------------------
\* Bounds of the model and constants of the program
\* ------------------------------------------------------------------------

\* The largest width and height of a prepared image (args.size).
MaxDim == 4

\* The largest 8-bit channel value.
MaxVal == 255

\* ------------------------------------------------------------------------
\* IEEE-754 double arithmetic on limb sequences
\* ------------------------------------------------------------------------

\* A number is a sequence of six limbs <<l0, .., l5>> in base B, of value
\* l0 + l1*B + ... + l5*B^5.
B == 2 ^ 13

Zero == <<0, 0, 0, 0, 0, 0>>

NLimbs == Len(Zero)

\* The bits of a double's significand.
Precision == 53

Max(p, q) == IF p >= q THEN p ELSE q

Min(p, q) == IF p <= q THEN p ELSE q

Abs(p) == IF p >= 0 THEN p ELSE 0 - p

\* Number of bits of a natural number below 2^31.
RECURSIVE BitLen(_)
BitLen(v) == IF v = 0 THEN 0 ELSE 1 + BitLen(v \div 2)

\* The bits of one limb.
LimbBits == BitLen(B) - 1

\* Carry (or borrow) propagation: every limb back into 0..B-1.
Normalize(ls) ==
    LET v1 == ls[1]
        v2 == ls[2] + (v1 \div B)
        v3 == ls[3] + (v2 \div B)
        v4 == ls[4] + (v3 \div B)
        v5 == ls[5] + (v4 \div B)
        v6 == ls[6] + (v5 \div B)
    IN  <<v1 % B, v2 % B, v3 % B, v4 % B, v5 % B, v6 % B>>

IsZero(ls) == \A i \in 1..Len(ls) : ls[i] = 0

\* Index of the highest non-zero limb (0 for the number 0).
RECURSIVE TopLimb(_, _)
TopLimb(ls, i) == IF i = 0 THEN 0 ELSE IF ls[i] # 0 THEN i ELSE TopLimb(ls, i - 1)

LimbBitLen(ls) ==
    LET t == TopLimb(ls, Len(ls))
    IN  IF t = 0 THEN 0 ELSE LimbBits * (t - 1) + BitLen(ls[t])

\* Round to nearest, ties to even, at bit k of the two lowest limbs' word w:
\* the value that replaces w.
RoundWord(w, k) ==
    LET unit == 2 ^ k
        low  == w % unit
        half == unit \div 2
        odd  == (w \div unit) % 2 = 1
        up   == low > half \/ (low = half /\ odd)
    IN  w - low + (IF up THEN unit ELSE 0)

\* A non-negative number rounded to a significand of Precision bits.  The
\* number keeps its scale: the dropped low bits become 0.
Round53(ls) ==
    LET k == LimbBitLen(ls) - Precision
    IN  IF k <= 0 THEN ls
        ELSE LET w == ls[1] + ls[2] * B
                 r == RoundWord(w, k)
             IN  Normalize([ls EXCEPT ![1] = r % B, ![2] = r \div B])

\* Long division of <<0, 0, 0, 0, top>> by the small divisor den, from the
\* highest limb down: [q |-> quotient limbs, rem |-> remainder].
RECURSIVE LongDiv(_, _, _, _)
LongDiv(q, i, rem, den) ==
    IF i = 0 THEN [q |-> q, rem |-> rem]
    ELSE LET v == rem * B
         IN  LongDiv([q EXCEPT ![i] = v \div den], i - 1, v % den, den)

\* The least n with num * 2^n >= den, for 0 < num <= den.
RECURSIVE Shift(_, _)
Shift(num, den) == IF num >= den THEN 0 ELSE 1 + Shift(2 * num, den)

\* fl(num / den) for integers 0 <= num <= den, den > 0: a double
\* [mant |-> limbs, n |-> n] of value mant * 2^-(4 * LimbBits + n).
FloatDiv(num, den) ==
    IF num = 0 THEN [mant |-> Zero, n |-> 0]
    ELSE LET n    == Shift(num, den)
             top  == num * (2 ^ n)
             d    == LongDiv([Zero EXCEPT ![5] = top \div den], 4, top % den, den)
             odd  == d.q[1] % 2 = 1
             up   == 2 * d.rem > den \/ (2 * d.rem = den /\ odd)
         IN  [mant |-> IF up THEN Normalize([d.q EXCEPT ![1] = @ + 1]) ELSE d.q,
              n    |-> n]

\* fl(|d| * x): the magnitude of the product of an integer and a double.
FloatMul(d, x) ==
    [mant |-> Round53(Normalize([i \in 1..NLimbs |-> Abs(d) * x.mant[i]])),
     n    |-> x.n]

\* fl(c + p) or fl(c - p) for an integer c >= 0 and a double p >= 0 with
\* c - p >= 0 when subtracting.
FloatAdd(c, p, negative) ==
    LET cs  == Normalize([Zero EXCEPT ![5] = c * (2 ^ p.n)])
        sum == [i \in 1..NLimbs |->
                   IF negative THEN cs[i] - p.mant[i] ELSE cs[i] + p.mant[i]]
    IN  [mant |-> Round53(Normalize(sum)), n |-> p.n]

\* Python's round() of a double s >= 0: to the nearest integer, ties to even.
Round(s) ==
    LET unit    == 2 ^ s.n
        int     == (s.mant[5] + s.mant[6] * B) \div unit
        h       == s.mant[4] + (s.mant[5] % unit) * B
        half    == (B \div 2) * unit
        lowzero == s.mant[1] = 0 /\ s.mant[2] = 0 /\ s.mant[3] = 0
        up      == \/ h > half
                   \/ h = half /\ ~lowzero
                   \/ h = half /\ lowzero /\ int % 2 = 1
    IN  IF up THEN int + 1 ELSE int

\* round() of n/2 for an integer n >= 0 (a multiple of 0.5 is exact).
RoundHalf(n2) ==
    LET q == n2 \div 2
    IN  IF n2 % 2 = 0 THEN q ELSE IF q % 2 = 0 THEN q ELSE q + 1


\* ------------------------------------------------------------------------
\* hex_to_rgb: colour strings are sequences of characters
\* ------------------------------------------------------------------------

HexDigits == <<"0", "1", "2", "3", "4", "5", "6", "7", "8", "9",
               "a", "b", "c", "d", "e", "f">>

UpperDigits == <<"0", "1", "2", "3", "4", "5", "6", "7", "8", "9",
                 "A", "B", "C", "D", "E", "F">>

IsHex(ch) == \E i \in 1..16 : ch = HexDigits[i] \/ ch = UpperDigits[i]

HexValue(ch) == (CHOOSE i \in 1..16 : ch = HexDigits[i] \/ ch = UpperDigits[i]) - 1

\* ImageColor.getrgb on the forms #rgb and #rrggbb; anything else raises
\* ValueError.
getrgb(color) ==
    IF Len(color) \in {4, 7} /\ color[1] = "#"
       /\ \A i \in 2..Len(color) : IsHex(color[i])
    THEN [valid |-> TRUE,
          rgb   |-> IF Len(color) = 4
                    THEN [i \in 1..3 |-> 17 * HexValue(color[i + 1])]
                    ELSE [i \in 1..3 |->
                             16 * HexValue(color[2 * i]) + HexValue(color[2 * i + 1])]]
    ELSE [valid |-> FALSE, rgb |-> <<>>]

\* A variant that falls back to black instead of leaving the program.
hex_to_rgb_fallback(hex_str) ==
    IF ~getrgb(hex_str).valid
    THEN [rgb |-> <<0, 0, 0>>, exit |-> FALSE]
    ELSE [rgb |-> getrgb(hex_str).rgb, exit |-> FALSE]

\* hex_to_rgb: the parsed colour, or sys.exit(1) on ValueError.
hex_to_rgb(hex_str) ==
    IF ~getrgb(hex_str).valid
    THEN [rgb |-> <<>>, exit |-> TRUE]
    ELSE [rgb |-> getrgb(hex_str).rgb, exit |-> FALSE]

\* ------------------------------------------------------------------------
\* interpolate and the per-pixel core of composite_images
\* ------------------------------------------------------------------------

\* One channel of interpolate: int(round(c1 + (c2 - c1) * x)).
Channel(x, c1, c2) == Round(FloatAdd(c1, FloatMul(c2 - c1, x), c2 < c1))

\* A variant with the sign of bc1 wrong in the difference.
interpolate_sum(x, bc1, bc2) ==
    [i \in 1..3 |-> Round(FloatAdd(bc1[i], FloatMul(bc2[i] + bc1[i], x), FALSE))]

\* A variant with the two colours exchanged.
interpolate_swapped(x, bc1, bc2) == [i \in 1..3 |-> Channel(x, bc2[i], bc1[i])]

interpolate(x, bc1, bc2) == [i \in 1..3 |-> Channel(x, bc1[i], bc2[i])]

\* A variant that also divides when a = 0.
DivisionGuardGE(a2) == a2 >= 0

\* "if a > 0", on the doubled value a2 = 2 * a.
DivisionGuard(a2) == a2 > 0

\* b1 / a as Python evaluates it, on the doubled values: the doubling
\* cancels.  A zero divisor raises ZeroDivisionError.
Divide(b1x2, a2) ==
    IF a2 = 0 THEN [error |-> TRUE, value |-> FloatDiv(0, 1)]
    ELSE [error |-> FALSE, value |-> FloatDiv(b1x2, a2)]

\* A variant that truncates: int(a).
RoundAlphaTrunc(a2) == a2 \div 2

\* A variant that rounds half up, as JavaScript's Math.round does.
RoundAlphaHalfUp(a2) == (a2 + 1) \div 2

\* int(round(a)) on the doubled value.
RoundAlpha(a2) == RoundHalf(a2)

\* Lines 131-149 for one pixel: the doubles b1, b2 and a are held doubled
\* (b1x2 = 2*b1, b2x2 = 2*b2, a2 = 2*a), which is exact.
composite_pixel(r_val, g_val, bc1, bc2) ==
    LET b1x2 == r_val
        b2x2 == g_val + MaxVal
        a2   == 2 * MaxVal - b2x2 + b1x2
        q    == IF DivisionGuard(a2) THEN Divide(b1x2, a2)
                ELSE [error |-> FALSE, value |-> FloatDiv(0, 1)]
    IN  IF q.error
        THEN [error |-> TRUE, b |-> q.value, rgba |-> <<0, 0, 0, 0>>]
        ELSE LET rgb_tuple   == interpolate(q.value, bc1, bc2)
                 final_alpha == Max(0, Min(MaxVal, RoundAlpha(a2)))
             IN  [error |-> FALSE, b |-> q.value,
                  rgba  |-> <<rgb_tuple[1], rgb_tuple[2], rgb_tuple[3], final_alpha>>]

\* ------------------------------------------------------------------------
\* Images
\* ------------------------------------------------------------------------

Coords(w, h) == (0..(w - 1)) \X (0..(h - 1))

\* Image.new(mode, (w, h), fill).
NewImage(w, h, fill) ==
    [width |-> w, height |-> h, px |-> [p \in Coords(w, h) |-> fill]]

\* A name that is bound to no image yet.
NoImage == NewImage(0, 0, 0)

\* canvas.paste(im, off): the pixels of im replace those of the canvas in
\* the box of im's size at off; the rest of the canvas is kept.
paste(canvas, im, off) ==
    [canvas EXCEPT !.px =
        [p \in Coords(canvas.width, canvas.height) |->
            IF /\ off[1] <= p[1] /\ p[1] < off[1] + im.width
               /\ off[2] <= p[2] /\ p[2] < off[2] + im.height
            THEN im.px[<<p[1] - off[1], p[2] - off[2]>>]
            ELSE canvas.px[p]]]

\* Image.merge('RGB', (r, g, b)).
merge(r, g, b) ==
    [width |-> r.width, height |-> r.height,
     px |-> [p \in Coords(r.width, r.height) |-> <<r.px[p], g.px[p], b.px[p]>>]]

\* A variant without the halving.
offset_unhalved(canvasDim, imgDim) == canvasDim - imgDim

\* int(round((canvasDim - imgDim) / 2)): the quotient is a multiple of 0.5.
offset(canvasDim, imgDim) == RoundHalf(canvasDim - imgDim)

\* A variant that unpacks the red channel twice.
unpack_red_twice(pixel) == <<pixel[1], pixel[1]>>

\* r_val, g_val, _ = merged_pixels[x, y].
unpack(pixel) == <<pixel[1], pixel[2]>>

\* ------------------------------------------------------------------------
\* Inputs
\* ------------------------------------------------------------------------

\* The prepared (flattened, grayscale, thumbnailed) content of a readable
\* image file: any size up to MaxDim, intensities that vary with position.
Seeds == {17}

Picture(w, h, seed) ==
    [width |-> w, height |-> h,
     px |-> [p \in Coords(w, h) |-> (seed + 61 * p[1] + 97 * p[2]) % (MaxVal + 1)]]

Pictures == {Picture(w, h, s) : w \in 1..MaxDim, h \in 1..MaxDim, s \in Seeds}

ImageFile(im) == [kind |-> "image", image |-> im]

Files == {[kind |-> "missing", image |-> NoImage],
          [kind |-> "corrupt", image |-> NoImage]}
         \cup {ImageFile(im) : im \in Pictures}

Black == <<"#", "0", "0", "0", "0", "0", "0">>

White == <<"#", "F", "F", "F", "F", "F", "F">>

ColorStrings == {Black, <<"#", "F", "F", "F">>,
                 <<"n", "o", "t", "a", "c", "o", "l", "o", "r">>}

\* Pairs of valid colours for the per-pixel checks: the defaults, the
\* defaults exchanged, and two pairs with mixed channels.
ColourPairs == {<<Black, White>>,
                <<White, Black>>,
                <<<<"#", "f", "8", "0">>, <<"#", "0", "8", "F">>>>,
                <<<<"#", "1", "E", "9", "0", "F", "F">>,
                  <<"#", "c", "7", "1", "5", "8", "5">>>>}

Outputs == {"writable", "unwritable"}

\* ------------------------------------------------------------------------
\* State
\* ------------------------------------------------------------------------

VARIABLES
    pc,             \* position of the run
    args,           \* the parsed command line and what it names
    img1, img2,     \* the prepared images
    bc1, bc2,       \* the parsed colours
    offset1, offset2,
    base1, base2,   \* image1 on black, image2 on white
    merged_rg,
    result_image,
    x, y,           \* the scan's loop variables
    b,              \* the interpolation fraction of the last pixel
    bordered_image,
    saved,          \* the output file
    exit_code,      \* -1 while the program runs
    err             \* the error reported, "" for none

vars == <<pc, args, img1, img2, bc1, bc2, offset1, offset2, base1, base2,
          merged_rg, result_image, x, y, b, bordered_image, saved,
          exit_code, err>>

Init ==
    /\ pc = "load1"
    /\ args \in [image1 : Files, image2 : Files,
                 color1 : ColorStrings, color2 : ColorStrings,
                 output : Outputs]
    /\ img1 = NoImage /\ img2 = NoImage
    /\ bc1 = <<>> /\ bc2 = <<>>
    /\ offset1 = <<>> /\ offset2 = <<>>
    /\ base1 = NoImage /\ base2 = NoImage
    /\ merged_rg = NoImage
    /\ result_image = NoImage
    /\ x = 0 /\ y = 0
    /\ b = FloatDiv(0, 1)
    /\ bordered_image = NoImage
    /\ saved = NoImage
    /\ exit_code = -1
    /\ err = ""

\* sys.exit(1) after a message.
Exit1(message) == pc' = "exit" /\ exit_code' = 1 /\ err' = message

\* ------------------------------------------------------------------------
\* Actions
\* ------------------------------------------------------------------------

\* load_and_prepare_image: the prepared image, or the error that ends the run.
\* A readable file stands for what flattening, grayscale conversion and
\* thumbnail make of it (lines 45-61, all library calls).
load_and_prepare_image(file) ==
    IF file.kind = "missing" THEN [exit |-> TRUE, err |-> "FileNotFound", img |-> NoImage]
    ELSE IF file.kind = "corrupt" THEN [exit |-> TRUE, err |-> "OpenError", img |-> NoImage]
    ELSE [exit |-> FALSE, err |-> "", img |-> file.image]

LoadImage1 ==
    /\ pc = "load1"
    /\ LET r == load_and_prepare_image(args.image1)
       IN  IF r.exit
           THEN Exit1(r.err) /\ UNCHANGED img1
           ELSE pc' = "load2" /\ img1' = r.img /\ UNCHANGED <<exit_code, err>>
    /\ UNCHANGED <<args, img2, bc1, bc2, offset1, offset2, base1, base2, merged_rg,
                   result_image, x, y, b, bordered_image, saved>>

LoadImage2 ==
    /\ pc = "load2"
    /\ LET r == load_and_prepare_image(args.image2)
       IN  IF r.exit
           THEN Exit1(r.err) /\ UNCHANGED img2
           ELSE pc' = "color1" /\ img2' = r.img /\ UNCHANGED <<exit_code, err>>
    /\ UNCHANGED <<args, img1, bc1, bc2, offset1, offset2, base1, base2, merged_rg,
                   result_image, x, y, b, bordered_image, saved>>

ParseColor1 ==
    /\ pc = "color1"
    /\ LET r == hex_to_rgb(args.color1)
       IN  IF r.exit
           THEN Exit1("InvalidColor") /\ UNCHANGED bc1
           ELSE pc' = "color2" /\ bc1' = r.rgb /\ UNCHANGED <<exit_code, err>>
    /\ UNCHANGED <<args, img1, img2, bc2, offset1, offset2, base1, base2, merged_rg,
                   result_image, x, y, b, bordered_image, saved>>

ParseColor2 ==
    /\ pc = "color2"
    /\ LET r == hex_to_rgb(args.color2)
       IN  IF r.exit
           THEN Exit1("InvalidColor") /\ UNCHANGED bc2
           ELSE pc' = "canvas" /\ bc2' = r.rgb /\ UNCHANGED <<exit_code, err>>
    /\ UNCHANGED <<args, img1, img2, bc1, offset1, offset2, base1, base2, merged_rg,
                   result_image, x, y, b, bordered_image, saved>>

\* Lines 84-117, as a function of the two prepared images.  The handler of
\* lines 118-120 (a failure of Image.load on an image just created in
\* memory) is not modelled: load() of such an image does not raise.
Canvas(i1, i2) ==
    LET result_width  == Max(i1.width, i2.width)
        result_height == Max(i1.height, i2.height)
        o1 == <<offset(result_width, i1.width), offset(result_height, i1.height)>>
        o2 == <<offset(result_width, i2.width), offset(result_height, i2.height)>>
        l1 == paste(NewImage(result_width, result_height, 0), i1, o1)
        l2 == paste(NewImage(result_width, result_height, MaxVal), i2, o2)
    IN  [offset1 |-> o1, offset2 |-> o2, base1 |-> l1, base2 |-> l2,
         merged_rg |-> merge(l1, l2, NewImage(result_width, result_height, 0)),
         result_image |-> NewImage(result_width, result_height, <<0, 0, 0, 0>>)]

BuildCanvas ==
    /\ pc = "canvas"
    /\ \E c \in {Canvas(img1, img2)} :
           /\ offset1' = c.offset1 /\ offset2' = c.offset2
           /\ base1' = c.base1 /\ base2' = c.base2
           /\ merged_rg' = c.merged_rg
           /\ result_image' = c.result_image
    /\ x' = 0 /\ y' = 0
    /\ pc' = "scan"
    /\ UNCHANGED <<args, img1, img2, bc1, bc2, b, bordered_image, saved, exit_code, err>>

\* One iteration of the loops of lines 125-149.
ScanPixel ==
    /\ pc = "scan"
    /\ \E rg \in {unpack(merged_rg.px[<<x, y>>])} :
       \E r \in {composite_pixel(rg[1], rg[2], bc1, bc2)} :
       LET last == x + 1 = result_image.width /\ y + 1 = result_image.height
       IN  IF r.error
           THEN /\ Exit1("ZeroDivisionError")
                /\ UNCHANGED <<result_image, x, y, b>>
           ELSE /\ result_image' = [result_image EXCEPT !.px[<<x, y>>] = r.rgba]
                /\ b' = r.b
                /\ IF x + 1 < result_image.width
                   THEN x' = x + 1 /\ y' = y
                   ELSE x' = 0 /\ y' = y + 1
                /\ pc' = IF last THEN "border" ELSE "scan"
                /\ UNCHANGED <<exit_code, err>>
    /\ UNCHANGED <<args, img1, img2, bc1, bc2, offset1, offset2, base1, base2,
                   merged_rg, bordered_image, saved>>

\* A variant that puts the result at the corner of the new canvas.
add_border_at_corner(im) ==
    paste(NewImage(im.width + 2, im.height + 2, <<0, 0, 0, 0>>), im, <<0, 0>>)

\* Lines 156-163.
add_border(im) ==
    paste(NewImage(im.width + 2, im.height + 2, <<0, 0, 0, 0>>), im, <<1, 1>>)

AddBorder ==
    /\ pc = "border"
    /\ bordered_image' = add_border(result_image)
    /\ pc' = "save"
    /\ UNCHANGED <<args, img1, img2, bc1, bc2, offset1, offset2, base1, base2,
                   merged_rg, result_image, x, y, b, saved, exit_code, err>>

\* Lines 167-172 and the return through main: a failed save is reported
\* and the program still ends normally.
Save ==
    /\ pc = "save"
    /\ IF args.output = "writable"
       THEN saved' = bordered_image /\ err' = ""
       ELSE saved' = saved /\ err' = "SaveError"
    /\ pc' = "exit"
    /\ exit_code' = 0
    /\ UNCHANGED <<args, img1, img2, bc1, bc2, offset1, offset2, base1, base2,
                   merged_rg, result_image, x, y, b, bordered_image>>

Next ==
    \/ LoadImage1
    \/ LoadImage2
    \/ ParseColor1
    \/ ParseColor2
    \/ BuildCanvas
    \/ ScanPixel
    \/ AddBorder
    \/ Save

Spec == Init /\ [][Next]_vars

\* ------------------------------------------------------------------------
\* The compositor on every pair of intensities: the run stands before the
\* scan of a 1 x 1 canvas whose two layers hold r_val and g_val.
\* ------------------------------------------------------------------------

Dot(v) == NewImage(1, 1, v)

\* Every pair of intensities with the default colours, and a grid of
\* intensities (every eighth value, the extremes and the middle) with the
\* other pairs of colours.
Grid == {v \in 0..MaxVal : v % 8 = 0 \/ v \in {1, 127, MaxVal - 1, MaxVal}}

Intensities(cp) == IF cp = <<Black, White>> THEN 0..MaxVal ELSE Grid

InitPixel ==
    \E cp \in ColourPairs :
    \E c1 \in {hex_to_rgb(cp[1]).rgb}, c2 \in {hex_to_rgb(cp[2]).rgb} :
    \E r_val \in Intensities(cp), g_val \in Intensities(cp) :
    \E c \in {Canvas(Dot(r_val), Dot(g_val))} :
            /\ pc = "scan"
            /\ args = [image1 |-> ImageFile(Dot(r_val)), image2 |-> ImageFile(Dot(g_val)),
                       color1 |-> cp[1], color2 |-> cp[2], output |-> "writable"]
            /\ img1 = Dot(r_val) /\ img2 = Dot(g_val)
            /\ bc1 = c1 /\ bc2 = c2
            /\ offset1 = c.offset1 /\ offset2 = c.offset2
            /\ base1 = c.base1 /\ base2 = c.base2
            /\ merged_rg = c.merged_rg
            /\ result_image = c.result_image
            /\ x = 0 /\ y = 0
            /\ b = FloatDiv(0, 1)
            /\ bordered_image = NoImage
            /\ saved = NoImage
            /\ exit_code = -1
            /\ err = ""

SpecPixel == InitPixel /\ [][ScanPixel]_vars

\* ------------------------------------------------------------------------
\* Properties
\* ------------------------------------------------------------------------

Pixels == DOMAIN result_image.px

\* The scan has written pixel p: p lies before (x, y) in row order.
Visited(p) == p \in Pixels /\ (p[2] < y \/ (p[2] = y /\ p[1] < x))

RVal(p) == merged_rg.px[p][1]

GVal(p) == merged_rg.px[p][2]

Alpha(p) == result_image.px[p][4]

DefaultColours == bc1 = <<0, 0, 0>> /\ bc2 = <<MaxVal, MaxVal, MaxVal>>

InvalidColour == ~getrgb(args.color1).valid \/ ~getrgb(args.color2).valid

\* The double t is at most 1.0: its significand is at most 2^(52 + n).
AtMostOne(t) ==
    \/ LimbBitLen(t.mant) <= 4 * LimbBits + t.n
    \/ t.mant = [Zero EXCEPT ![5] = 2 ^ t.n]

\* C1: with the default colours black and white, every emitted pixel
\* (c, alpha) blended over black, c*alpha/255, is within 1 of r_val/2, and
\* blended over white, c*alpha/255 + 255*(1 - alpha/255), is within 1 of
\* 127.5 + g_val/2.  Both sides are multiplied by 2*255 to stay in integers.
C1_RevealsEachImage ==
    DefaultColours =>
        \A p \in Pixels : Visited(p) =>
            \A i \in 1..3 :
                LET c     == result_image.px[p][i]
                    alpha == Alpha(p)
                IN  /\ Abs(2 * c * alpha - MaxVal * RVal(p)) <= 2 * MaxVal
                    /\ Abs(2 * c * alpha + 2 * MaxVal * (MaxVal - alpha)
                           - MaxVal * (MaxVal + GVal(p))) <= 2 * MaxVal

\* A pixel of intermediate intensities was composited with the defaults.
C1_Witness ==
    /\ DefaultColours
    /\ \E p \in Pixels : /\ Visited(p)
                         /\ RVal(p) = 252 /\ GVal(p) = 22
                         /\ Alpha(p) = 242 /\ result_image.px[p][1] = 132

\* C2: the compositor never divides by zero, and every alpha it emits is an
\* integer in 0..255.
C2_NoZeroDivision ==
    /\ err # "ZeroDivisionError"
    /\ \A p \in Pixels : Visited(p) => Alpha(p) \in 0..MaxVal

\* The pixel with a = 0 (r_val = 0, g_val = 255) was composited.
C2_Witness ==
    \E p \in Pixels : Visited(p) /\ RVal(p) = 0 /\ GVal(p) = MaxVal /\ pc # "exit"

\* C3: exit code 0 only if the output file was written, and a non-zero exit
\* code whenever a failure was reported.
C3_ExitCodes ==
    pc = "exit" =>
        /\ exit_code = 0 => saved # NoImage
        /\ err # "" => exit_code # 0

\* C4 as stated: with an invalid colour string no image is ever loaded and
\* the run ends with the invalid-colour error.
C4_RejectedBeforeLoading ==
    InvalidColour =>
        /\ img1 = NoImage /\ img2 = NoImage
        /\ base1 = NoImage /\ result_image = NoImage
        /\ bordered_image = NoImage /\ saved = NoImage
        /\ pc = "exit" => err = "InvalidColor"

\* C4 amended: with an invalid colour string the canvas, compositing,
\* padding and encoding steps never run and nothing is written; the run ends
\* with exit code 1, with the invalid-colour error when both images loaded
\* and with the load error otherwise.
C4_RejectedBeforeCanvas ==
    InvalidColour =>
        /\ base1 = NoImage /\ base2 = NoImage /\ merged_rg = NoImage
        /\ result_image = NoImage /\ bordered_image = NoImage /\ saved = NoImage
        /\ pc \in {"load1", "load2", "color1", "color2", "exit"}
        /\ pc = "exit" =>
            /\ exit_code = 1
            /\ err = IF args.image1.kind = "missing" THEN "FileNotFound"
                     ELSE IF args.image1.kind = "corrupt" THEN "OpenError"
                     ELSE IF args.image2.kind = "missing" THEN "FileNotFound"
                     ELSE IF args.image2.kind = "corrupt" THEN "OpenError"
                     ELSE "InvalidColor"

\* A run with an invalid colour ended with the invalid-colour error after
\* both images were loaded.
C4_Witness ==
    /\ InvalidColour /\ pc = "exit" /\ err = "InvalidColor"
    /\ img1 # NoImage /\ img2 # NoImage

\* C5: the four extreme pairs.  (0,255): alpha 0, colour bc1.  (255,0):
\* alpha 255, every channel the midpoint of bc1 and bc2 rounded to an
\* integer.  (255,255): alpha 128, colour bc2.  (0,0): alpha 128, colour bc1.
C5_Extremes ==
    \A p \in Pixels : Visited(p) =>
        LET out == result_image.px[p]
            rgb == <<out[1], out[2], out[3]>>
        IN  /\ RVal(p) = 0 /\ GVal(p) = MaxVal => out[4] = 0 /\ rgb = bc1
            /\ RVal(p) = MaxVal /\ GVal(p) = 0 =>
                  /\ out[4] = MaxVal
                  /\ \A i \in 1..3 : Abs(2 * out[i] - (bc1[i] + bc2[i])) <= 1
            /\ RVal(p) = MaxVal /\ GVal(p) = MaxVal => out[4] = 128 /\ rgb = bc2
            /\ RVal(p) = 0 /\ GVal(p) = 0 => out[4] = 128 /\ rgb = bc1

\* The opaque extreme (255, 0) was composited between two colours whose
\* channel sums are odd, so that the midpoint is rounded.
C5_Witness ==
    /\ \E i \in 1..3 : (bc1[i] + bc2[i]) % 2 = 1
    /\ \E p \in Pixels : Visited(p) /\ RVal(p) = MaxVal /\ GVal(p) = 0
                         /\ Alpha(p) = MaxVal

\* C6: the canvas is max(w1,w2) by max(h1,h2); each image's box lies in the
\* canvas with margins that differ by at most 1; inside the box the layer
\* is the image, outside it is 0 on the image1 layer and 255 on the image2
\* layer.
Centred(canvas, im, off, fill) ==
    /\ canvas.width = Max(img1.width, img2.width)
    /\ canvas.height = Max(img1.height, img2.height)
    /\ off[1] >= 0 /\ off[1] + im.width <= canvas.width
    /\ off[2] >= 0 /\ off[2] + im.height <= canvas.height
    /\ Abs(2 * off[1] - (canvas.width - im.width)) <= 1
    /\ Abs(2 * off[2] - (canvas.height - im.height)) <= 1
    /\ \A p \in Coords(canvas.width, canvas.height) :
          IF /\ off[1] <= p[1] /\ p[1] < off[1] + im.width
             /\ off[2] <= p[2] /\ p[2] < off[2] + im.height
          THEN canvas.px[p] = im.px[<<p[1] - off[1], p[2] - off[2]>>]
          ELSE canvas.px[p] = fill

C6_CentredCanvas ==
    base1 # NoImage =>
        /\ Centred(base1, img1, offset1, 0)
        /\ Centred(base2, img2, offset2, MaxVal)

\* A canvas was built in which each image is narrower than the canvas on
\* one axis, one of them by two pixels.
C6_Witness ==
    /\ base1 # NoImage
    /\ img1.width + 2 = base1.width /\ img2.height < base2.height
    /\ offset1[1] = 1

\* C7: the bordered output is (W+2) by (H+2), its outer ring has alpha 0,
\* and its interior pixel (x+1, y+1) is the result pixel (x, y).
C7_Border ==
    bordered_image # NoImage =>
        /\ bordered_image.width = result_image.width + 2
        /\ bordered_image.height = result_image.height + 2
        /\ \A p \in Coords(bordered_image.width, bordered_image.height) :
              IF \/ p[1] = 0 \/ p[1] = bordered_image.width - 1
                 \/ p[2] = 0 \/ p[2] = bordered_image.height - 1
              THEN bordered_image.px[p][4] = 0
              ELSE bordered_image.px[p] = result_image.px[<<p[1] - 1, p[2] - 1>>]

\* A border was added around a result of several pixels that are not
\* transparent.
C7_Witness ==
    /\ bordered_image # NoImage
    /\ result_image.width > 1 /\ result_image.height > 1
    /\ \A p \in Pixels : Alpha(p) > 0

\* C8: when the row-by-row scan has ended, every pixel of the result is the
\* per-pixel function of the two co-located intensities and bc1, bc2 alone;
\* so the result does not depend on the order of the visits, and is the
\* same for the same inputs.
C8_Pointwise ==
    pc = "border" =>
        \A p \in Pixels :
            result_image.px[p] = composite_pixel(base1.px[p], base2.px[p], bc1, bc2).rgba

\* A scan of several pixels, whose layers differ, has ended.
C8_Witness ==
    /\ pc = "border"
    /\ result_image.width > 1 /\ result_image.height > 1
    /\ \E p \in Pixels : base1.px[p] # base2.px[p]
    /\ \E p \in Pixels : result_image.px[p] # result_image.px[<<0, 0>>]

\* C9: the interpolation fraction lies in [0, 1] (it is never negative by
\* its representation), and every emitted colour channel lies between the
\* corresponding channels of bc1 and bc2.
C9_ColourInRange ==
    /\ AtMostOne(b)
    /\ \A p \in Pixels : Visited(p) =>
          \A i \in 1..3 :
              /\ Min(bc1[i], bc2[i]) <= result_image.px[p][i]
              /\ result_image.px[p][i] <= Max(bc1[i], bc2[i])

\* A pixel was interpolated strictly inside (0, 1) from a brighter bc1 down
\* to a darker bc2.
C9_Witness ==
    /\ ~IsZero(b.mant) /\ b.n > 0
    /\ \E p \in Pixels : /\ Visited(p)
                         /\ bc1[1] > result_image.px[p][1]
                         /\ result_image.px[p][1] > bc2[1]

\* C10 as stated: alpha is 0 exactly when r_val = 0 and g_val = 255.
C10_TransparentOnlyAtZero ==
    \A p \in Pixels : Visited(p) =>
        (Alpha(p) = 0 <=> (RVal(p) = 0 /\ GVal(p) = MaxVal))

\* C10 amended: alpha is 0 exactly when a <= 0.5, that is for the pairs
\* (0,255), (0,254) and (1,255): round() takes a = 0.5 to 0.  Every other
\* pair yields alpha >= 1.
C10_TransparentUpToHalf ==
    \A p \in Pixels : Visited(p) =>
        /\ Alpha(p) = 0 <=>
              <<RVal(p), GVal(p)>> \in {<<0, MaxVal>>, <<0, MaxVal - 1>>, <<1, MaxVal>>}
        /\ Alpha(p) >= 0

\* The pixel (1, 255), where a = 0.5, came out transparent.
C10_Witness ==
    \E p \in Pixels : Visited(p) /\ RVal(p) = 1 /\ GVal(p) = MaxVal /\ Alpha(p) = 0

====
